---------------------------- MODULE Spec2Model ----------------------------
(***************************************************************************)
(* Model of vumi/transports/failures.py: FailureWorker, its redis-backed   *)
(* failure store, the time-bucketed retry schedule and the retry delivery  *)
(* loop.                                                                   *)
(*                                                                         *)
(* Time is int(time.time()), an integer number of seconds.  A timestamp    *)
(* string 'YYYY-MM-DDTHH:MM:SS' is modelled by its <<minute, second>>      *)
(* fields (the higher fields are constant in the window explored), and     *)
(* string comparison by lexicographic comparison of those fields.          *)
(* Python's None, '' and {} are modelled by the empty tuple <<>>.          *)
(***************************************************************************)
EXTENDS Integers, Sequences, FiniteSets, TLC

VARIABLES
    now,            \* int(time.time())
    config,         \* GRANULARITY, MAX_DELAY, ... after configure_retries
    r_server,       \* the redis database shared by the workers of a namespace
    uuids,          \* number of uuid4() values drawn so far
    worker,         \* per worker: "new" | "started" | "stopped"
    delivery_loop,  \* per worker: <<>> (None) | "running" | "stopped" | "failed"
    pc,             \* per worker: position inside its current handler
    frame,          \* per worker: local variables of the suspended handler
    published,      \* messages delivered by retry_publisher.publish_raw
    stored,         \* history: the hash store_failure wrote, by failure key
    enrolled,       \* history: store_retry calls, by failure key
    pops,           \* history: get_next_retry_key calls that returned a key
    sweep,          \* history: per worker, the current/last deliver_retries call
    raised,         \* history: the exceptions raised by the handlers
    storing,        \* per worker: the store_failure call between redis commands
    rmd,            \* retry_metadata of one message (backoff policy)
    delays,         \* history: delays produced by update_retry_metadata
    rounds          \* history: successive roundings of one timestamp

vars == <<now, config, r_server, uuids, worker, delivery_loop, pc, frame,
          published, stored, enrolled, pops, sweep, raised, storing, rmd,
          delays, rounds>>

storeVars == <<r_server, uuids, stored, enrolled, storing>>
sweepVars == <<pc, frame, published, pops, sweep, raised>>
pureVars  == <<rmd, delays, rounds>>

----------------------------------------------------------------------------
(* Bounds of the exploration *)

StartTime == 58
MaxTime == 65
MaxFailures == 3
MaxRetries == 4
MaxRoundInput == 12
MaxConcFailures == 2
MaxInitialDelay == 3
MaxDelayFactor == 3
MaxMaxDelay == 10
MaxGranularity == 3

(* Class attributes of FailureWorker *)
GRANULARITY == 5
DELIVERY_PERIOD == 3
MAX_DELAY == 3600
INITIAL_DELAY == 1
DELAY_FACTOR == 3

None == <<>>

Workers == {"w1", "w2"}
MainWorker == "w1"

\* retry delays the host policy (handle_failure) passes to store_failure
RetryDelays == {0, 1}

\* failed messages handed to store_failure: a JSON string or a dict
Messages == {<<"json", "a">>, <<"dict", "a">>}

Reasons == {"r"}

Min(a, b) == IF a <= b THEN a ELSE b

----------------------------------------------------------------------------
(* Conversions *)

\* datetime.utcfromtimestamp(t).isoformat().split('.')[0]
IsoFormat(t) == <<t \div 60, t % 60>>

\* time.strptime(timestamp, "%Y-%m-%dT%H:%M:%S"), as seconds
StrpTime(ts) == ts[1] * 60 + ts[2]

\* a <= b on timestamp strings
StrLeq(a, b) == a[1] < b[1] \/ (a[1] = b[1] /\ a[2] <= b[2])

\* vumi.message.to_json
to_json(message) == <<"json", message[2]>>

\* isinstance(message, basestring)
IsString(message) == message[1] = "json"

\* str(retry_delay)
Str(n) == <<"str", n>>

----------------------------------------------------------------------------
(* The redis commands used by the worker, as functions of the database r.   *)
(* r.hashes: key -> hash; r.failure_keys: the set r_key("failure_keys");    *)
(* r.retry_keys: the sets r_key("retry_keys." + timestamp), as pairs        *)
(* <<timestamp, member>>; r.retry_timestamps: the sorted set, as pairs      *)
(* <<member, score>>.                                                       *)

EmptyRedis ==
    [hashes |-> <<>>, failure_keys |-> {}, retry_keys |-> {},
     retry_timestamps |-> {}]

HMSet(r, key, mapping) == [r EXCEPT !.hashes = (key :> mapping) @@ @]

HGetAll(r, key) == IF key \in DOMAIN r.hashes THEN r.hashes[key] ELSE <<>>

SMembers(r, timestamp) ==
    {p[2] : p \in {q \in r.retry_keys : q[1] = timestamp}}

SAdd(r, timestamp, member) ==
    [r EXCEPT !.retry_keys = @ \cup {<<timestamp, member>>}]

SRem(r, timestamp, member) ==
    [r EXCEPT !.retry_keys = @ \ {<<timestamp, member>>}]

SCard(r, timestamp) == Cardinality(SMembers(r, timestamp))

\* spop: the members it may remove and return; {None} on an empty set
SPop(r, timestamp) ==
    IF SMembers(r, timestamp) = {} THEN {None} ELSE SMembers(r, timestamp)

\* mutant: the member is returned and left in the set (srandmember)
AfterSPop_keep(r, timestamp, member) == r

\* the database after spop returned member
AfterSPop(r, timestamp, member) ==
    IF member = None THEN r ELSE SRem(r, timestamp, member)

ZAdd(r, member, score) ==
    [r EXCEPT !.retry_timestamps =
        {p \in @ : p[1] # member} \cup {<<member, score>>}]

ZRem(r, member) ==
    [r EXCEPT !.retry_timestamps = {p \in @ : p[1] # member}]

ZMembers(r) == {p[1] : p \in r.retry_timestamps}

\* mutant: the member of highest score (zrange(key, -1, -1))
ZRangeLast(r) ==
    LET z == r.retry_timestamps
    IN  IF z = {} THEN <<>>
        ELSE <<(CHOOSE p \in z : \A q \in z : q[2] <= p[2])[1]>>

\* zrange(key, 0, 0): the list holding the member of lowest score, or []
ZRangeFirst(r) ==
    LET z == r.retry_timestamps
    IN  IF z = {} THEN <<>>
        ELSE <<(CHOOSE p \in z : \A q \in z :
                    \/ p[2] < q[2]
                    \/ (p[2] = q[2] /\ StrLeq(p[1], q[1])))[1]>>

----------------------------------------------------------------------------
(* FailureWorker's store and schedule methods *)

\* mutant: the key is built from the minute alone, without seconds or uuid
failure_key_minute(t, uuid) == <<IsoFormat(t - (t % 60)), 0>>

\* failure_key(): timestamp of creation and a fresh uuid
failure_key(t, uuid) == <<IsoFormat(t), uuid>>

add_to_failure_set(r, key) == [r EXCEPT !.failure_keys = @ \cup {key}]

get_failure_keys(r) == r.failure_keys

get_failure(r, key) == HGetAll(r, key)

\* timestamp += self.GRANULARITY - (timestamp % self.GRANULARITY)
RoundUp(timestamp, g) == timestamp + (g - (timestamp % g))

get_next_write_timestamp(delta, t, g) == IsoFormat(RoundUp(t + delta, g))

store_read_timestamp(r, timestamp) == ZAdd(r, timestamp, StrpTime(timestamp))

store_retry(r, key, retry_delay, t, g) ==
    LET timestamp == get_next_write_timestamp(retry_delay, t, g)
    IN  store_read_timestamp(SAdd(r, timestamp, key), timestamp)

\* "if not retry_delay: retry_delay = 0"; the argument is <<>> (None) or <<n>>
DelayOf(arg) == IF arg = None THEN 0 ELSE arg[1]

FailureHash(message, reason, arg) ==
    [message |-> IF IsString(message) THEN message ELSE to_json(message),
     reason |-> reason,
     retry_delay |-> Str(DelayOf(arg))]

\* mutant: "if retry_delay is not None" in place of "if retry_delay"
store_failure_not_none(r, key, message, reason, arg, t, g) ==
    LET r1 == HMSet(r, key, FailureHash(message, reason, arg))
        r2 == add_to_failure_set(r1, key)
    IN  IF arg # None THEN store_retry(r2, key, DelayOf(arg), t, g)
        ELSE r2

store_failure(r, key, message, reason, arg, t, g) ==
    LET r1 == HMSet(r, key, FailureHash(message, reason, arg))
        r2 == add_to_failure_set(r1, key)
    IN  IF DelayOf(arg) # 0 THEN store_retry(r2, key, DelayOf(arg), t, g)
        ELSE r2

\* mutant: the earliest timestamp, due or not
get_next_read_timestamp_any(r, t) ==
    IF ZRangeFirst(r) # <<>> THEN ZRangeFirst(r)[1] ELSE None

\* mutant: "<" in place of "<=": a timestamp is due one second late
get_next_read_timestamp_strict(r, t) ==
    LET timestamp == IsoFormat(t)
        next_timestamp == ZRangeFirst(r)
    IN  IF next_timestamp # <<>> /\ next_timestamp[1] # timestamp
           /\ StrLeq(next_timestamp[1], timestamp)
        THEN next_timestamp[1]
        ELSE None

get_next_read_timestamp(r, t) ==
    LET timestamp == IsoFormat(t)
        next_timestamp == ZRangeFirst(r)
    IN  IF next_timestamp # <<>> /\ StrLeq(next_timestamp[1], timestamp)
        THEN next_timestamp[1]
        ELSE None

\* mutant: the timestamp is never removed from the index
AfterPop_no_zrem(r, timestamp, key) == AfterSPop(r, timestamp, key)

\* mutant: "scard < 2" in place of "scard < 1"
AfterPop_scard2(r, timestamp, key) ==
    LET r1 == AfterSPop(r, timestamp, key)
    IN  IF SCard(r1, timestamp) < 2 THEN ZRem(r1, timestamp) ELSE r1

\* mutant: the popped key's hash is deleted and the key leaves the index
\* of failure keys
AfterPop_delete(r, timestamp, key) ==
    LET r1 == AfterSPop(r, timestamp, key)
        r2 == IF SCard(r1, timestamp) < 1 THEN ZRem(r1, timestamp) ELSE r1
    IN  [r2 EXCEPT !.hashes = [k \in DOMAIN @ \ {key} |-> @[k]],
                   !.failure_keys = @ \ {key}]

\* the database after spop returned failure_key from the bucket of timestamp
AfterPop(r, timestamp, key) ==
    LET r1 == AfterSPop(r, timestamp, key)
    IN  IF SCard(r1, timestamp) < 1 THEN ZRem(r1, timestamp) ELSE r1

\* get_next_retry_key(): its possible outcomes [timestamp, key, r]
get_next_retry_key(r, t) ==
    LET timestamp == get_next_read_timestamp(r, t)
    IN  IF timestamp = None
        THEN {[timestamp |-> None, key |-> None, r |-> r]}
        ELSE {[timestamp |-> timestamp, key |-> k,
               r |-> AfterPop(r, timestamp, k)] : k \in SPop(r, timestamp)}

\* mutant: the delay grows without the cap
next_retry_delay_uncapped(delay, cfg) ==
    IF delay = 0 THEN cfg.INITIAL_DELAY ELSE delay * cfg.DELAY_FACTOR

\* next_retry_delay(delay)
next_retry_delay(delay, cfg) ==
    IF delay = 0 THEN cfg.INITIAL_DELAY
    ELSE Min(delay * cfg.DELAY_FACTOR, cfg.MAX_DELAY)

\* update_retry_metadata(message): the new retry_metadata; m is <<>> when
\* the message carries none
update_retry_metadata(m, cfg) ==
    [retries |-> (IF "retries" \in DOMAIN m THEN m.retries ELSE 0) + 1,
     delay |-> next_retry_delay(
                   IF "delay" \in DOMAIN m THEN m.delay ELSE 0, cfg)]

----------------------------------------------------------------------------
(* Initial state: the workers are constructed and not yet started *)

DefaultConfig ==
    [GRANULARITY |-> GRANULARITY, MAX_DELAY |-> MAX_DELAY,
     INITIAL_DELAY |-> INITIAL_DELAY, DELAY_FACTOR |-> DELAY_FACTOR,
     DELIVERY_PERIOD |-> DELIVERY_PERIOD]

\* configure_retries: the class attributes, overridden by retry_* options
Configs == {[DefaultConfig EXCEPT !.DELIVERY_PERIOD = p] :
                p \in {DELIVERY_PERIOD, 0}}

\* the record of a deliver_retries call: its outcome, the number of keys it
\* popped, the keys that were due when it began, whether a key was enrolled
\* while it ran, and what it left behind when it returned
NoSweep ==
    [result |-> "none", n |-> 0, due |-> {}, enrol |-> FALSE,
     missed |-> {}, left |-> FALSE, call |-> TRUE]

NoFrame == [timestamp |-> None, retry_key |-> None, message |-> None]

Init ==
    /\ now = StartTime
    /\ config \in Configs
    /\ r_server = EmptyRedis
    /\ uuids = 0
    /\ worker = [w \in Workers |-> "new"]
    /\ delivery_loop = [w \in Workers |-> "unset"]
    /\ pc = [w \in Workers |-> "idle"]
    /\ frame = [w \in Workers |-> NoFrame]
    /\ published = <<>>
    /\ stored = <<>>
    /\ enrolled = <<>>
    /\ pops = <<>>
    /\ sweep = [w \in Workers |-> NoSweep]
    /\ raised = {}
    /\ storing = [w \in Workers |-> None]
    /\ rmd = <<>>
    /\ delays = <<>>
    /\ rounds = <<>>

----------------------------------------------------------------------------
(* Handlers of one worker process.  The redis client is blocking, so a     *)
(* handler runs without interruption up to its next yield.                 *)

\* time.time() advances
Tick ==
    /\ now < MaxTime
    /\ now' = now + 1
    /\ UNCHANGED <<config, storeVars, worker, delivery_loop, sweepVars,
                   pureVars>>

\* keys of due buckets at time t
DueKeys(r, t) ==
    {p[2] : p \in {q \in r.retry_keys : StrLeq(q[1], IsoFormat(t))}}

\* due timestamps of the index at time t
DueTimestamps(r, t) == {m \in ZMembers(r) : StrLeq(m, IsoFormat(t))}

\* an exception raised by a handler: its type and the failure key at hand
Raise(error, key) == [error |-> error, key |-> key]

\* LoopingCall: a failed call stops the loop (running becomes False)
LoopAfterFailure(loop, w) ==
    [loop EXCEPT ![w] = IF @ = "running" THEN "failed" ELSE @]

Count(seq, key) == Cardinality({i \in 1..Len(seq) : seq[i].key = key})

\* history: what a get_next_retry_key call at time t with outcome o did,
\* seen from the database r it started from
CallOk(r, t, o) ==
    LET first == ZRangeFirst(r)
    IN  (first # <<>> /\ StrLeq(first[1], IsoFormat(t)))
        => /\ o.key \in SMembers(r, first[1])
           /\ o.timestamp = first[1]
           /\ (SMembers(r, first[1]) = {o.key}
               => first[1] \notin ZMembers(o.r))

PopRecord(r, t, o, w) ==
    [key |-> o.key, timestamp |-> o.timestamp, w |-> w,
     after_stop |-> worker[w] = "stopped",
     early |-> t < StrpTime(o.timestamp),
     before |-> o.key \in DOMAIN enrolled
                /\ t < enrolled[o.key].at + enrolled[o.key].delay,
     earlier |-> \E q \in r.retry_keys :
                    q[1] # o.timestamp /\ StrLeq(q[1], o.timestamp)]

\* deliver_retries from the top of its while loop to its next yield or its
\* return; sw is the record of this call, loop the loops' state, pub the
\* messages published so far
Iterate(w, sw, loop, pub) ==
    \E o \in get_next_retry_key(r_server, now) :
        LET failure == get_failure(o.r, o.key)
            s1 == [sw EXCEPT !.call = @ /\ CallOk(r_server, now, o)]
        IN  /\ r_server' = o.r
            /\ published' = pub
            /\ raised' = IF o.key # None /\ "message" \notin DOMAIN failure
                          THEN raised \cup {Raise("KeyError", o.key)}
                          ELSE raised
            /\ IF o.key = None
               THEN \* "if not retry_key: return"
                    /\ pc' = [pc EXCEPT ![w] = "idle"]
                    /\ frame' = [frame EXCEPT ![w] = NoFrame]
                    /\ pops' = pops
                    /\ sweep' = [sweep EXCEPT ![w] =
                          [s1 EXCEPT !.result = "ok", !.due = {},
                              !.missed = {k \in sw.due :
                                  Count(pops, k) # 1 \/ Count(pub, k) # 1},
                              !.left = DueKeys(o.r, now) # {}
                                       \/ DueTimestamps(o.r, now) # {}]]
                    /\ delivery_loop' = loop
               ELSE /\ pops' = Append(pops, PopRecord(r_server, now, o, w))
                    /\ IF "message" \in DOMAIN failure
                       THEN \* yield publisher.publish_raw(failure['message'])
                            /\ pc' = [pc EXCEPT ![w] = "publishing"]
                            /\ frame' = [frame EXCEPT ![w] =
                                  [timestamp |-> o.timestamp,
                                   retry_key |-> o.key,
                                   message |-> failure.message]]
                            /\ sweep' = [sweep EXCEPT ![w] =
                                  [s1 EXCEPT !.result = "running",
                                             !.n = @ + 1]]
                            /\ delivery_loop' = loop
                       ELSE \* failure['message'] raises KeyError
                            /\ pc' = [pc EXCEPT ![w] = "idle"]
                            /\ frame' = [frame EXCEPT ![w] = NoFrame]
                            /\ sweep' = [sweep EXCEPT ![w] =
                                  [s1 EXCEPT !.result = "KeyError",
                                             !.n = @ + 1, !.due = {},
                                             !.left = DueKeys(o.r, now) # {}]]
                            /\ delivery_loop' = LoopAfterFailure(loop, w)

NewSweep ==
    [NoSweep EXCEPT !.result = "running", !.due = DueKeys(r_server, now)]

\* mutant: start_retry_delivery without its "if self.DELIVERY_PERIOD"
StartWorker_always(w) ==
    /\ worker[w] = "new"
    /\ worker' = [worker EXCEPT ![w] = "started"]
    /\ Iterate(w, NewSweep, [delivery_loop EXCEPT ![w] = "running"],
               published)
    /\ UNCHANGED <<now, config, uuids, stored, enrolled, storing, pureVars>>

\* startWorker: configure_retries, set_up_redis, start_retry_delivery;
\* LoopingCall.start calls deliver_retries at once
StartWorker(w) ==
    /\ worker[w] = "new"
    /\ worker' = [worker EXCEPT ![w] = "started"]
    /\ IF config.DELIVERY_PERIOD # 0
       THEN Iterate(w, NewSweep, [delivery_loop EXCEPT ![w] = "running"],
                    published)
       ELSE /\ delivery_loop' = [delivery_loop EXCEPT ![w] = "None"]
            /\ UNCHANGED <<r_server, sweepVars>>
    /\ UNCHANGED <<now, config, uuids, stored, enrolled, storing, pureVars>>

\* stopWorker
StopWorker(w) ==
    /\ worker[w] = "started"
    /\ worker' = [worker EXCEPT ![w] = "stopped"]
    /\ delivery_loop' = [delivery_loop EXCEPT ![w] =
          IF @ = "running" THEN "stopped" ELSE @]
    /\ UNCHANGED <<now, config, storeVars, sweepVars, pureVars>>

\* the LoopingCall fires deliver_retries
DeliverRetries(w) ==
    /\ delivery_loop[w] = "running"
    /\ pc[w] = "idle"
    /\ Iterate(w, NewSweep, delivery_loop, published)
    /\ UNCHANGED <<now, config, uuids, stored, enrolled, storing, worker,
                   pureVars>>

\* mutant: "while self.delivery_loop.running" in place of "while True"
PublishDone_while_running(w) ==
    /\ pc[w] = "publishing"
    /\ IF delivery_loop[w] = "running"
       THEN Iterate(w, sweep[w], delivery_loop,
                    Append(published, [key |-> frame[w].retry_key,
                                       message |-> frame[w].message]))
       ELSE /\ published' = Append(published,
                                   [key |-> frame[w].retry_key,
                                    message |-> frame[w].message])
            /\ pc' = [pc EXCEPT ![w] = "idle"]
            /\ frame' = [frame EXCEPT ![w] = NoFrame]
            /\ sweep' = [sweep EXCEPT ![w].result = "ok", ![w].due = {}]
            /\ UNCHANGED <<r_server, pops, raised, delivery_loop>>
    /\ UNCHANGED <<now, config, uuids, stored, enrolled, storing, worker,
                   pureVars>>

\* the publish awaited by deliver_retries succeeds; the loop goes on
PublishDone(w) ==
    /\ pc[w] = "publishing"
    /\ Iterate(w, sweep[w], delivery_loop,
               Append(published, [key |-> frame[w].retry_key,
                                  message |-> frame[w].message]))
    /\ UNCHANGED <<now, config, uuids, stored, enrolled, storing, worker,
                   pureVars>>

\* the publish awaited by deliver_retries fails; deliver_retries raises
PublishFail(w) ==
    /\ pc[w] = "publishing"
    /\ pc' = [pc EXCEPT ![w] = "idle"]
    /\ frame' = [frame EXCEPT ![w] = NoFrame]
    /\ sweep' = [sweep EXCEPT ![w].result = "failed", ![w].due = {}]
    /\ raised' = raised \cup {Raise("PublishError", frame[w].retry_key)}
    /\ delivery_loop' = LoopAfterFailure(delivery_loop, w)
    /\ UNCHANGED <<now, config, storeVars, worker, published, pops,
                   pureVars>>

RetryDelayArgs == {None} \cup {<<d>> : d \in RetryDelays}

\* history of store_retry: when, with what delay, and the bucket the key
\* is found in afterwards (r1 is the database after store_failure)
Enrolment(key, arg, t, r1) ==
    IF \E p \in r1.retry_keys : p[2] = key
    THEN (key :> [at |-> t, delay |-> DelayOf(arg),
                  timestamp |->
                      (CHOOSE p \in r1.retry_keys : p[2] = key)[1]])
         @@ enrolled
    ELSE enrolled

\* process_message -> handle_failure (the host's policy picks retry_delay)
\* -> store_failure
ProcessMessage(w) ==
    /\ worker[w] = "started"
    /\ pc[w] \in {"idle", "publishing"}
    /\ uuids < MaxFailures
    /\ \E message \in Messages, reason \in Reasons, arg \in RetryDelayArgs :
        LET key == failure_key(now, uuids + 1)
        IN  /\ r_server' = store_failure(r_server, key, message, reason, arg,
                                         now, config.GRANULARITY)
            /\ stored' = (key :> get_failure(r_server', key)) @@ stored
            /\ enrolled' = Enrolment(key, arg, now, r_server')
            /\ sweep' = [x \in Workers |->
                  IF pc[x] # "idle" /\ DelayOf(arg) # 0
                  THEN [sweep[x] EXCEPT !.enrol = TRUE] ELSE sweep[x]]
    /\ uuids' = uuids + 1
    /\ UNCHANGED <<now, config, worker, delivery_loop, pc, frame, published,
                   pops, raised, storing, pureVars>>

Next ==
    \/ Tick
    \/ StartWorker(MainWorker)
    \/ StopWorker(MainWorker)
    \/ DeliverRetries(MainWorker)
    \/ PublishDone(MainWorker)
    \/ PublishFail(MainWorker)
    \/ ProcessMessage(MainWorker)

Spec == Init /\ [][Next]_vars

\* The worker as scheduled: the clock advances, the LoopingCall calls
\* deliver_retries again while it is running and the previous call has
\* returned, and the publisher answers a publish.
LiveSpec ==
    /\ Init
    /\ [][Next]_vars
    /\ WF_vars(Tick)
    /\ WF_vars(DeliverRetries(MainWorker))
    /\ WF_vars(PublishDone(MainWorker))

----------------------------------------------------------------------------
(* Failure notifications that lack a field.  A notification is given here  *)
(* by the set of payload fields it carries.  The consumer builds a          *)
(* FailureMessage from it, which validates it, before process_message is   *)
(* called.                                                                 *)

Fields == {"message", "failure_code", "reason"}

\* mutant: failure_code is not asserted
validate_fields_two(payload) == {"message", "reason"} \subseteq payload

\* FailureMessage.validate_fields: assert_field_present of the three fields
validate_fields(payload) == Fields \subseteq payload

\* process_message: the payload lookups before handle_failure is called
process_message_lookups(payload) ==
    IF Fields \subseteq payload THEN None ELSE Raise("KeyError", None)

\* a notification lacking a field arrives on the failures queue
ConsumeMalformed(w) ==
    /\ worker[w] = "started"
    /\ pc[w] \in {"idle", "publishing"}
    /\ \E payload \in (SUBSET Fields) \ {Fields} :
          raised' = raised \cup
              {IF validate_fields(payload)
               THEN process_message_lookups(payload)
               ELSE Raise("MissingMessageField", None)}
    /\ UNCHANGED <<now, config, storeVars, worker, delivery_loop, pc, frame,
                   published, pops, sweep, pureVars>>

IngestNext == Next \/ ConsumeMalformed(MainWorker)

IngestSpec == Init /\ [][IngestNext]_vars

----------------------------------------------------------------------------
(* The worker with a backing store that may lose records: redis expires or *)
(* evicts a failure's hash, outside the worker's control.  hgetall of a    *)
(* missing key returns {}.                                                 *)

Evict ==
    /\ \E key \in DOMAIN r_server.hashes :
          r_server' = [r_server EXCEPT
                          !.hashes = [k \in DOMAIN @ \ {key} |-> @[k]]]
    /\ UNCHANGED <<now, config, uuids, stored, enrolled, storing, worker,
                   delivery_loop, sweepVars, pureVars>>

FaultNext == Next \/ Evict

FaultSpec == Init /\ [][FaultNext]_vars

----------------------------------------------------------------------------
(* Several workers of one namespace share the redis database.  Each redis  *)
(* command of get_next_retry_key is a step of its own, and the commands of *)
(* different workers interleave.  pc: "zrange", "spop", "scard", "zrem",   *)
(* "hgetall" name the command the worker issues next.  The per-call record *)
(* sweep is kept by the one-worker handlers only.                          *)

\* "if not retry_key: return", else deliver_retry's get_failure comes next
AfterGetNextRetryKey(w, f) ==
    IF f.retry_key = None
    THEN /\ pc' = [pc EXCEPT ![w] = "idle"]
         /\ frame' = [frame EXCEPT ![w] = NoFrame]
    ELSE /\ pc' = [pc EXCEPT ![w] = "hgetall"]
         /\ frame' = [frame EXCEPT ![w] = f]

\* startWorker; LoopingCall.start calls deliver_retries at once
StartWorkerStep(w) ==
    /\ worker[w] = "new"
    /\ config.DELIVERY_PERIOD # 0
    /\ worker' = [worker EXCEPT ![w] = "started"]
    /\ delivery_loop' = [delivery_loop EXCEPT ![w] = "running"]
    /\ pc' = [pc EXCEPT ![w] = "zrange"]
    /\ frame' = [frame EXCEPT ![w] = NoFrame]
    /\ UNCHANGED <<now, config, storeVars, published, pops, sweep, raised,
                   pureVars>>

\* the LoopingCall fires deliver_retries
SweepBegin(w) ==
    /\ delivery_loop[w] = "running"
    /\ pc[w] = "idle"
    /\ pc' = [pc EXCEPT ![w] = "zrange"]
    /\ frame' = [frame EXCEPT ![w] = NoFrame]
    /\ UNCHANGED <<now, config, storeVars, worker, delivery_loop,
                   published, pops, sweep, raised, pureVars>>

\* get_next_read_timestamp: zrange(retry_timestamps, 0, 0) and the
\* comparison with now.  The clock is read just before the zrange; it is
\* taken here at the zrange, as time only advances and a staler clock can
\* only turn the answer into None, the answer of an earlier call.
SweepZRange(w) ==
    /\ pc[w] = "zrange"
    /\ LET timestamp == get_next_read_timestamp(r_server, now)
       IN  IF timestamp = None
           THEN AfterGetNextRetryKey(w, NoFrame)
           ELSE /\ pc' = [pc EXCEPT ![w] = "spop"]
                /\ frame' = [frame EXCEPT ![w] =
                      [NoFrame EXCEPT !.timestamp = timestamp]]
    /\ UNCHANGED <<now, config, storeVars, worker, delivery_loop,
                   published, pops, sweep, raised, pureVars>>

\* failure_key = spop(bucket_key)
SweepSPop(w) ==
    /\ pc[w] = "spop"
    /\ \E k \in SPop(r_server, frame[w].timestamp) :
          /\ r_server' = AfterSPop(r_server, frame[w].timestamp, k)
          /\ frame' = [frame EXCEPT ![w].retry_key = k]
          /\ pops' = IF k = None THEN pops
                     ELSE Append(pops, PopRecord(r_server, now,
                              [key |-> k, timestamp |-> frame[w].timestamp],
                              w))
    /\ pc' = [pc EXCEPT ![w] = "scard"]
    /\ UNCHANGED <<now, config, uuids, stored, enrolled, storing, worker,
                   delivery_loop, published, sweep, raised, pureVars>>

\* scard(bucket_key) < 1
SweepSCard(w) ==
    /\ pc[w] = "scard"
    /\ IF SCard(r_server, frame[w].timestamp) < 1
       THEN /\ pc' = [pc EXCEPT ![w] = "zrem"]
            /\ UNCHANGED frame
       ELSE AfterGetNextRetryKey(w, frame[w])
    /\ UNCHANGED <<now, config, storeVars, worker, delivery_loop,
                   published, pops, sweep, raised, pureVars>>

\* zrem(retry_timestamps, timestamp)
SweepZRem(w) ==
    /\ pc[w] = "zrem"
    /\ r_server' = ZRem(r_server, frame[w].timestamp)
    /\ AfterGetNextRetryKey(w, frame[w])
    /\ UNCHANGED <<now, config, uuids, stored, enrolled, storing, worker,
                   delivery_loop, published, pops, sweep, raised, pureVars>>

\* deliver_retry: hgetall(retry_key), then publish_raw(failure['message'])
SweepHGetAll(w) ==
    /\ pc[w] = "hgetall"
    /\ LET failure == get_failure(r_server, frame[w].retry_key)
       IN  IF "message" \in DOMAIN failure
           THEN /\ pc' = [pc EXCEPT ![w] = "publishing"]
                /\ frame' = [frame EXCEPT ![w].message = failure.message]
                /\ delivery_loop' = delivery_loop
                /\ raised' = raised
           ELSE /\ pc' = [pc EXCEPT ![w] = "idle"]
                /\ frame' = [frame EXCEPT ![w] = NoFrame]
                /\ delivery_loop' = LoopAfterFailure(delivery_loop, w)
                /\ raised' = raised
                              \cup {Raise("KeyError", frame[w].retry_key)}
    /\ UNCHANGED <<now, config, storeVars, worker, published, pops,
                   sweep, pureVars>>

\* the publish succeeds; deliver_retries loops
PublishDoneStep(w) ==
    /\ pc[w] = "publishing"
    /\ published' = Append(published,
          [key |-> frame[w].retry_key, message |-> frame[w].message])
    /\ pc' = [pc EXCEPT ![w] = "zrange"]
    /\ frame' = [frame EXCEPT ![w] = NoFrame]
    /\ UNCHANGED <<now, config, storeVars, worker, delivery_loop, pops,
                   sweep, raised, pureVars>>

SweeperInit ==
    /\ Init
    /\ config.DELIVERY_PERIOD # 0

SweeperNext ==
    \/ Tick
    \/ \E w \in Workers :
          \/ StartWorkerStep(w)
          \/ (uuids < MaxConcFailures /\ ProcessMessage(w))
          \/ SweepBegin(w)
          \/ SweepZRange(w)
          \/ SweepSPop(w)
          \/ SweepSCard(w)
          \/ SweepZRem(w)
          \/ SweepHGetAll(w)
          \/ PublishDoneStep(w)

\* what a started worker does on its own: the LoopingCall fires every
\* DELIVERY_PERIOD seconds, redis answers each command, a publish completes
SweeperSteps(w) ==
    \/ SweepBegin(w)
    \/ SweepZRange(w)
    \/ SweepSPop(w)
    \/ SweepSCard(w)
    \/ SweepZRem(w)
    \/ SweepHGetAll(w)
    \/ PublishDoneStep(w)

SweeperSpec ==
    /\ SweeperInit
    /\ [][SweeperNext]_vars
    /\ \A w \in Workers : WF_vars(SweeperSteps(w))

----------------------------------------------------------------------------
(* store_failure command by command.  Between two redis commands of one    *)
(* worker's store_failure the other workers' commands may be served and    *)
(* the clock may advance; the worker itself is blocked in the call.        *)
(* storing[w] holds the call's arguments and locals and i, the position in *)
(* StoreCommands of the command it issues next.                            *)

\* mutant: the retry is enrolled before the hash is written
StoreCommands_retry_first(arg) ==
    IF DelayOf(arg) # 0
    THEN <<"timestamp", "sadd", "zadd", "hmset", "sadd_failure_keys">>
    ELSE <<"hmset", "sadd_failure_keys">>

\* what store_failure does after failure_key(), in order: hmset,
\* add_to_failure_set and, "if retry_delay", store_retry's
\* get_next_write_timestamp, sadd and store_read_timestamp
StoreCommands(arg) ==
    IF DelayOf(arg) # 0
    THEN <<"hmset", "sadd_failure_keys", "timestamp", "sadd", "zadd">>
    ELSE <<"hmset", "sadd_failure_keys">>

\* the worker is about to issue command c of its store_failure call
StoreAt(w, c) ==
    /\ storing[w] # None
    /\ StoreCommands(storing[w].arg)[storing[w].i] = c

\* the call after the command: the next command, or the return
StoreAdvance(w, st) ==
    storing' = [storing EXCEPT ![w] =
                   IF st.i = Len(StoreCommands(st.arg)) THEN None
                   ELSE [st EXCEPT !.i = @ + 1]]

\* process_message -> handle_failure -> store_failure, up to failure_key()
StoreBegin(w) ==
    /\ worker[w] = "started"
    /\ pc[w] \in {"idle", "publishing"}
    /\ storing[w] = None
    /\ \E message \in Messages, reason \in Reasons, arg \in RetryDelayArgs :
          storing' = [storing EXCEPT ![w] =
              [i |-> 1, key |-> failure_key(now, uuids + 1),
               message |-> message, reason |-> reason, arg |-> arg,
               timestamp |-> None]]
    /\ uuids' = uuids + 1
    /\ UNCHANGED <<now, config, r_server, stored, enrolled, worker,
                   delivery_loop, sweepVars, pureVars>>

\* self.r_server.hmset(key, {...})
StoreHMSet(w) ==
    /\ StoreAt(w, "hmset")
    /\ LET st == storing[w]
       IN  /\ r_server' = HMSet(r_server, st.key,
                                FailureHash(st.message, st.reason, st.arg))
           /\ stored' = (st.key :> get_failure(r_server', st.key)) @@ stored
           /\ StoreAdvance(w, st)
    /\ UNCHANGED <<now, config, uuids, enrolled, worker, delivery_loop,
                   sweepVars, pureVars>>

\* self.add_to_failure_set(key)
StoreAddToFailureSet(w) ==
    /\ StoreAt(w, "sadd_failure_keys")
    /\ r_server' = add_to_failure_set(r_server, storing[w].key)
    /\ StoreAdvance(w, storing[w])
    /\ UNCHANGED <<now, config, uuids, stored, enrolled, worker,
                   delivery_loop, sweepVars, pureVars>>

\* store_retry: timestamp = self.get_next_write_timestamp(retry_delay)
StoreTimestamp(w) ==
    /\ StoreAt(w, "timestamp")
    /\ LET st == storing[w]
           timestamp == get_next_write_timestamp(DelayOf(st.arg), now,
                                                 config.GRANULARITY)
       IN  /\ StoreAdvance(w, [st EXCEPT !.timestamp = timestamp])
           /\ enrolled' = (st.key :> [at |-> now, delay |-> DelayOf(st.arg),
                                      timestamp |-> timestamp]) @@ enrolled
    /\ UNCHANGED <<now, config, r_server, uuids, stored, worker,
                   delivery_loop, sweepVars, pureVars>>

\* store_retry: self.r_server.sadd(bucket_key, failure_key)
StoreSAdd(w) ==
    /\ StoreAt(w, "sadd")
    /\ r_server' = SAdd(r_server, storing[w].timestamp, storing[w].key)
    /\ StoreAdvance(w, storing[w])
    /\ UNCHANGED <<now, config, uuids, stored, enrolled, worker,
                   delivery_loop, sweepVars, pureVars>>

\* store_read_timestamp: self.r_server.zadd(retry_timestamps, ...)
StoreZAdd(w) ==
    /\ StoreAt(w, "zadd")
    /\ r_server' = store_read_timestamp(r_server, storing[w].timestamp)
    /\ StoreAdvance(w, storing[w])
    /\ UNCHANGED <<now, config, uuids, stored, enrolled, worker,
                   delivery_loop, sweepVars, pureVars>>

StoreSteps(w) ==
    \/ StoreHMSet(w)
    \/ StoreAddToFailureSet(w)
    \/ StoreTimestamp(w)
    \/ StoreSAdd(w)
    \/ StoreZAdd(w)

RaceNext ==
    \/ Tick
    \/ \E w \in Workers :
          \/ StartWorkerStep(w)
          \/ (uuids < MaxConcFailures /\ StoreBegin(w))
          \/ StoreSteps(w)
          \/ (storing[w] = None /\ SweeperSteps(w))

RaceSpec == SweeperInit /\ [][RaceNext]_vars

----------------------------------------------------------------------------
(* The pure functions, applied to inputs drawn from bounded sets: the      *)
(* backoff policy under any configuration, and the rounding of             *)
(* get_next_write_timestamp applied to its own result.                     *)

PureConfigs ==
    {[DefaultConfig EXCEPT !.INITIAL_DELAY = i, !.DELAY_FACTOR = f,
                           !.MAX_DELAY = m, !.GRANULARITY = g] :
        i \in 0..MaxInitialDelay, f \in 0..MaxDelayFactor,
        m \in 0..MaxMaxDelay, g \in 1..MaxGranularity \cup {GRANULARITY}}

PureInit ==
    /\ now = StartTime
    /\ config \in PureConfigs
    /\ r_server = EmptyRedis
    /\ uuids = 0
    /\ worker = [w \in Workers |-> "new"]
    /\ delivery_loop = [w \in Workers |-> "unset"]
    /\ pc = [w \in Workers |-> "idle"]
    /\ frame = [w \in Workers |-> NoFrame]
    /\ published = <<>>
    /\ stored = <<>>
    /\ enrolled = <<>>
    /\ pops = <<>>
    /\ sweep = [w \in Workers |-> NoSweep]
    /\ raised = {}
    /\ storing = [w \in Workers |-> None]
    /\ rmd = <<>>
    /\ delays = <<>>
    /\ rounds \in {<<t>> : t \in 0..MaxRoundInput}

\* a message fails once more: update_retry_metadata(message)
UpdateRetryMetadata ==
    /\ Len(delays) < MaxRetries
    /\ rmd' = update_retry_metadata(rmd, config)
    /\ delays' = Append(delays, rmd'.delay)
    /\ UNCHANGED <<now, config, storeVars, worker, delivery_loop, sweepVars,
                   rounds>>

\* get_next_write_timestamp(0, now=t) for t the last value of rounds
RoundAgain ==
    /\ Len(rounds) < 3
    /\ rounds' = Append(rounds,
          StrpTime(get_next_write_timestamp(0, rounds[Len(rounds)],
                                            config.GRANULARITY)))
    /\ UNCHANGED <<now, config, storeVars, worker, delivery_loop, sweepVars,
                   rmd, delays>>

PureNext == UpdateRetryMetadata \/ RoundAgain

PureSpec == PureInit /\ [][PureNext]_vars

----------------------------------------------------------------------------
(* Properties of the schedule under Spec: one worker, whose handlers run   *)
(* one at a time                                                           *)

BucketTimestamps(r) == {p[1] : p \in r.retry_keys}

\* C1: after any sequence of store_retry and get_next_retry_key calls, a
\* timestamp is in retry_timestamps if and only if its bucket holds at
\* least one failure key.
C1_BucketIndexConsistent ==
    \A ts \in ZMembers(r_server) \cup BucketTimestamps(r_server) :
        ts \in ZMembers(r_server) <=> SMembers(r_server, ts) # {}

\* a pop emptied a bucket, whose timestamp left the index, while another
\* bucket is still pending
C1_Witness ==
    /\ \E i \in 1..Len(pops) : pops[i].timestamp \notin ZMembers(r_server)
    /\ ZMembers(r_server) # {}

\* the key of uuid u is in a due bucket / has been returned by a pop
DueUuid(u) == \E k \in DueKeys(r_server, now) : k[2] = u

PoppedUuid(u) == \E i \in 1..Len(pops) : pops[i].key[2] = u

SpecRoundUp(t, g) == IF t % g # 0 THEN t + (g - (t % g)) ELSE t

\* C3: store_retry(key, delay, now) puts the key in the bucket of
\* round_up(now + delay, g), where a value already on a granularity boundary
\* is used unchanged.
C3_EnrolAtSpecRoundUp ==
    \A k \in DOMAIN enrolled :
        enrolled[k].timestamp =
            IsoFormat(SpecRoundUp(enrolled[k].at + enrolled[k].delay,
                                  config.GRANULARITY))

\* C4: the rounding of get_next_write_timestamp is idempotent:
\* round_up(round_up(t, g), g) = round_up(t, g).
C4_RoundUpIdempotent == Len(rounds) >= 3 => rounds[3] = rounds[2]

RECURSIVE Power(_, _)
Power(b, e) == IF e = 0 THEN 1 ELSE b * Power(b, e - 1)

\* the delay the specification states for the i-th failure
SpecDelay(i, cfg) ==
    Min(cfg.INITIAL_DELAY * Power(cfg.DELAY_FACTOR, i - 1), cfg.MAX_DELAY)

BackoffAsStated ==
    /\ \A i \in 1..Len(delays) :
          /\ delays[i] = SpecDelay(i, config)
          /\ delays[i] = config.MAX_DELAY
             => \A j \in i..Len(delays) : delays[j] = config.MAX_DELAY
    /\ Len(delays) >= 1
       => (rmd.retries = Len(delays) /\ rmd.delay = delays[Len(delays)])

\* C5 as stated: under every configuration the delays are initial,
\* initial*factor, initial*factor^2, ... each capped at max_delay, stay at
\* max_delay once there, and every update_retry_metadata adds 1 to retries.
C5_BackoffEveryConfig == BackoffAsStated

\* C5 as amended: the same, under the configurations with
\* initial_delay <= max_delay and delay_factor >= 1.
C5_BackoffCappedConfig ==
    (config.INITIAL_DELAY <= config.MAX_DELAY /\ config.DELAY_FACTOR >= 1)
    => BackoffAsStated

\* initial 1, factor 3, cap 10: the delays are 1, 3, 9 and then 10, not 27
C5_Witness ==
    /\ config.INITIAL_DELAY = 1
    /\ config.DELAY_FACTOR = 3
    /\ config.MAX_DELAY = 10
    /\ delays = <<1, 3, 9, 10>>
    /\ rmd.retries = 4

\* C6: a key of the bucket of timestamp D is never returned while now < D,
\* nor before its enrolment time plus its delay; a call at now >= D, D the
\* earliest index entry, returns a key of bucket D and removes D from the
\* index when that key was the bucket's last.
C6_PopOnlyWhenDue ==
    /\ \A i \in 1..Len(pops) :
          /\ ~pops[i].early
          /\ ~pops[i].before
          /\ pops[i].key \in DOMAIN enrolled
          /\ pops[i].timestamp = enrolled[pops[i].key].timestamp
    /\ \A w \in Workers : sweep[w].call

\* a key was popped as the last of its bucket, and a later call returned
\* nothing although another bucket, not yet due, is pending
C6_Witness ==
    /\ Len(pops) >= 1
    /\ pops[1].timestamp \notin ZMembers(r_server)
    /\ sweep[MainWorker].result = "ok"
    /\ r_server.retry_keys # {}
    /\ DueKeys(r_server, now) = {}

InSomeBucket(r, key) == \E p \in r.retry_keys : p[2] = key

C8_RecordsKept ==
    /\ get_failure_keys(r_server) = DOMAIN stored
    /\ \A k \in DOMAIN stored : get_failure(r_server, k) = stored[k]
    /\ \A i \in 1..Len(published) :
          published[i].message = stored[published[i].key].message

\* a key was popped, its message published, and its hash is still there
C8_Witness ==
    \E i \in 1..Len(published) :
        /\ Count(pops, published[i].key) = 1
        /\ "message" \in DOMAIN get_failure(r_server, published[i].key)
        /\ ~InSomeBucket(r_server, published[i].key)

\* C9: when a deliver_retries call returns normally and no key was enrolled
\* while it ran, every key that was in a due bucket when it began has been
\* popped and published exactly once, and no due bucket or due index entry
\* is left.
C9_SweepDrainsDue ==
    \A w \in Workers :
        (sweep[w].result = "ok" /\ ~sweep[w].enrol)
        => (sweep[w].missed = {} /\ ~sweep[w].left)

\* the pops of worker w's current or last deliver_retries call
SweepPops(w) ==
    LET mine == SelectSeq(pops, LAMBDA p : p.w = w)
    IN  SubSeq(mine, Len(mine) - sweep[w].n + 1, Len(mine))

\* one call drained three keys: two sharing a bucket, one in another
C9_Witness ==
    LET tail == SweepPops(MainWorker)
    IN  /\ sweep[MainWorker].result = "ok"
        /\ ~sweep[MainWorker].enrol
        /\ Len(tail) = 3
        /\ Len(published) = 3
        /\ tail[1].timestamp # tail[3].timestamp
        /\ \/ tail[1].timestamp = tail[2].timestamp
           \/ tail[2].timestamp = tail[3].timestamp

\* C10: within one deliver_retries call the buckets are drained in
\* chronological order: no key is popped from a bucket while an earlier
\* bucket is non-empty, and the timestamps of the successive pops never
\* decrease.
C10_ChronologicalDrain ==
    /\ \A i \in 1..Len(pops) : ~pops[i].earlier
    /\ \A w \in Workers :
          LET tail == SweepPops(w)
          IN  \A i, j \in 1..Len(tail) :
                  i < j => StrLeq(tail[i].timestamp, tail[j].timestamp)

\* one call popped from two buckets, the earlier first
C10_Witness ==
    LET tail == SweepPops(MainWorker)
    IN  /\ Len(tail) >= 2
        /\ tail[1].timestamp # tail[2].timestamp
        /\ StrLeq(tail[1].timestamp, tail[2].timestamp)

----------------------------------------------------------------------------
(* Properties of the delivery loop when records are lost or a publish      *)
(* fails                                                                   *)

\* C11: when a sweep pops a key whose hash is gone from the store, the
\* deliver_retries call is not aborted: it skips that key and goes on, so it
\* never ends on the lookup error and, when it ends, no key that is due is
\* left in a bucket.
C11_NotFoundSkipped ==
    \A w \in Workers :
        /\ sweep[w].result # "KeyError"
        /\ (sweep[w].result \in {"ok", "KeyError"} /\ ~sweep[w].enrol)
           => ~sweep[w].left

\* the keys whose publish_raw failed
PublishFailed == {e.key : e \in {x \in raised : x.error = "PublishError"}}

\* C12: when the publish of a popped key fails, deliver_retries raises to its
\* caller and the key is not enrolled again: while the publish is awaited the
\* key is in no bucket (and its timestamp is out of the index if the bucket
\* emptied), and ever after the key is in no bucket, is not popped again and
\* is never published.
C12_FailedPublishDropped ==
    /\ \A w \in Workers :
          pc[w] = "publishing"
          => /\ ~InSomeBucket(r_server, frame[w].retry_key)
             /\ SMembers(r_server, frame[w].timestamp) = {}
                => frame[w].timestamp \notin ZMembers(r_server)
    /\ \A k \in PublishFailed :
          /\ ~InSomeBucket(r_server, k)
          /\ Count(pops, k) = 1
          /\ Count(published, k) = 0
          /\ \A w \in Workers : frame[w].retry_key # k
          /\ \E w \in Workers : sweep[w].result = "failed"

\* a publish failed for the last key of its bucket; later another failure
\* was stored and enrolled, and the first key is still in no bucket
C12_Witness ==
    \E k \in PublishFailed :
        /\ enrolled[k].timestamp \notin ZMembers(r_server)
        /\ \E j \in DOMAIN enrolled :
              j[2] > k[2] /\ InSomeBucket(r_server, j)
        /\ now > StrpTime(enrolled[k].timestamp)

\* C13: a failure on one key inside a deliver_retries call (record not
\* found, or publish failed) never stops the delivery loop: a running loop
\* leaves the running state only by stopWorker, so later calls still fire.
C13_LoopKeepsRunning ==
    [][\A w \in Workers :
          (delivery_loop[w] = "running" /\ delivery_loop'[w] # "running")
          => (worker[w] = "started" /\ worker'[w] = "stopped")]_vars

\* C14: the delivery loop has two states.  startWorker makes it running if
\* and only if DELIVERY_PERIOD is greater than 0, and nothing else does; with
\* DELIVERY_PERIOD 0 no deliver_retries call ever runs and no key is popped,
\* while failures are still stored and enrolled; stopWorker stops a running
\* loop and leaves a loop that is not running as it is.
C14_LoopStartStop ==
    /\ [](config.DELIVERY_PERIOD = 0
          => /\ pops = <<>> /\ published = <<>>
             /\ \A w \in Workers :
                   /\ delivery_loop[w] # "running"
                   /\ sweep[w].result = "none"
                   /\ pc[w] = "idle"
             /\ \A k \in DOMAIN stored :
                   /\ get_failure(r_server, k) = stored[k]
                   /\ k \in get_failure_keys(r_server)
                   /\ stored[k].retry_delay # Str(0)
                      => /\ InSomeBucket(r_server, k)
                         /\ enrolled[k].timestamp \in ZMembers(r_server))
    /\ [][\A w \in Workers :
            /\ (worker[w] = "new" /\ worker'[w] = "started")
               => (delivery_loop'[w] = "running"
                      <=> config.DELIVERY_PERIOD > 0)
            /\ (delivery_loop[w] # "running"
                   /\ delivery_loop'[w] = "running")
               => (worker[w] = "new" /\ worker'[w] = "started")
            /\ (worker[w] = "started" /\ worker'[w] = "stopped")
               => /\ delivery_loop'[w] # "running"
                  /\ delivery_loop[w] # "running"
                     => delivery_loop'[w] = delivery_loop[w]]_vars

\* DELIVERY_PERIOD 0: a key was stored and enrolled and is due, nothing was
\* popped, and stopWorker found no loop to stop
C14_Witness ==
    /\ config.DELIVERY_PERIOD = 0
    /\ worker[MainWorker] = "stopped"
    /\ delivery_loop[MainWorker] = "None"
    /\ DueKeys(r_server, now) # {}
    /\ pops = <<>>

\* C15: a failure notification lacking message, failure_code or reason is
\* rejected by validation before process_message and handle_failure run: no
\* hash is stored, the set of failure keys is unchanged and no bucket or
\* index entry is created.
C15_MalformedRejected ==
    /\ [](\A e \in raised : e.key = None => e.error = "MissingMessageField")
    /\ [](\A k \in DOMAIN stored :
             {"message", "reason"} \subseteq DOMAIN get_failure(r_server, k))
    /\ [][raised' # raised /\ (\A e \in raised' \ raised : e.key = None)
           => UNCHANGED <<r_server, uuids, stored, enrolled>>]_vars

\* a notification was rejected, and the store holds only the one valid
\* failure that was handled
C15_Witness ==
    /\ Raise("MissingMessageField", None) \in raised
    /\ uuids = 1
    /\ Cardinality(get_failure_keys(r_server)) = 1
    /\ Cardinality(r_server.retry_keys) = 1

PublishedUuid(u) == \E i \in 1..Len(published) : published[i].key[2] = u

\* C17: while the delivery loop stays running, the clock advances and no
\* record is lost, every key enrolled in the bucket of T is eventually
\* popped and published: the bucket is seen by the first deliver_retries
\* call made at now >= T, which returns only after it has delivered the key.
C17_DueKeyDelivered ==
    /\ \A u \in 1..MaxFailures :
          (DueUuid(u) /\ delivery_loop[MainWorker] = "running")
              ~> (PublishedUuid(u) \/ delivery_loop[MainWorker] # "running")
    /\ [](\A w \in Workers :
             sweep[w].result = "ok" => sweep[w].missed = {})

\* the loop is still running after a call that found two buckets due and
\* delivered the keys of both; nothing due is left
C17_Witness ==
    LET tail == SweepPops(MainWorker)
    IN  /\ delivery_loop[MainWorker] = "running"
        /\ sweep[MainWorker].result = "ok"
        /\ Len(tail) >= 2
        /\ tail[1].timestamp # tail[Len(tail)].timestamp
        /\ \A i \in 1..Len(tail) : Count(published, tail[i].key) = 1
        /\ DueKeys(r_server, now) = {}

\* C18: a failure key is a member of at most one bucket at any time:
\* store_failure enrols a fresh key in exactly one bucket when retry_delay > 0,
\* get_next_retry_key removes it from that bucket, and no sequence of calls
\* leaves one key in two buckets.
C18_OneBucketPerKey ==
    /\ \A p, q \in r_server.retry_keys : p[2] = q[2] => p[1] = q[1]
    /\ \A k \in DOMAIN stored :
          stored[k].retry_delay # Str(0)
          => /\ k \in DOMAIN enrolled
             /\ IF Count(pops, k) = 0
                THEN <<enrolled[k].timestamp, k>> \in r_server.retry_keys
                ELSE Count(pops, k) = 1 /\ ~InSomeBucket(r_server, k)

\* three keys were enrolled: one has been popped, the other two are in two
\* different buckets
C18_Witness ==
    /\ Len(pops) = 1
    /\ \E p, q \in r_server.retry_keys : p[1] # q[1] /\ p[2] # q[2]

\* C19: stopWorker during a deliver_retries call that is suspended at a
\* publish cancels only the calls to come: the call in progress goes on
\* until get_next_retry_key returns nothing, delivering every key that is
\* due, and after it has returned no further call starts.
C19_StopLetsSweepFinish ==
    /\ [](\A w \in Workers :
             (worker[w] = "stopped" /\ sweep[w].result = "ok")
             => (sweep[w].missed = {} /\ ~sweep[w].left))
    /\ [][\A w \in Workers :
            /\ (worker[w] = "started" /\ worker'[w] = "stopped")
               => /\ pc'[w] = pc[w]
                  /\ frame'[w] = frame[w]
                  /\ sweep'[w] = sweep[w]
            /\ (worker[w] = "stopped" /\ pc[w] = "idle")
               => (pc'[w] = "idle" /\ sweep'[w] = sweep[w])
            /\ (worker[w] = "stopped" /\ pc[w] = "publishing"
                   /\ Len(published') > Len(published))
               => \/ pc'[w] = "publishing"
                  \/ /\ sweep'[w].result = "ok"
                     /\ DueKeys(r_server', now') = {}]_vars

\* stopWorker came while the call awaited its first publish; the call went
\* on to pop and publish two more keys and returned
C19_Witness ==
    LET tail == SweepPops(MainWorker)
    IN  /\ worker[MainWorker] = "stopped"
        /\ sweep[MainWorker].result = "ok"
        /\ Len(tail) = 3
        /\ ~tail[1].after_stop /\ tail[2].after_stop /\ tail[3].after_stop
        /\ \A i \in 1..3 : Count(published, tail[i].key) = 1

----------------------------------------------------------------------------
(* Properties of store_failure and get_next_retry_key interleaved command  *)
(* by command between two workers                                          *)

\* no worker is inside store_failure or get_next_retry_key
Quiescent ==
    \A w \in Workers : storing[w] = None /\ pc[w] \in {"idle", "publishing"}

\* C16: the redis commands of store_retry (sadd to the bucket, zadd to the
\* index) and of get_next_retry_key (zrange, spop, scard, zrem) of different
\* workers may interleave in any order without harm: whenever no call is in
\* progress, every bucket that holds a key has its timestamp in the index.
C16_RacesHarmless ==
    Quiescent
    => \A p \in r_server.retry_keys : p[1] \in ZMembers(r_server)

\* C20: store_failure writes the hash and adds the key to the set of
\* failure keys before it enrols the key, so in every state, also between
\* the commands of a store_failure that runs while another worker sweeps,
\* every key in a bucket has a stored hash with a message and is in the set
\* of failure keys; a sweeper never pops a key whose hash is not yet written.
C20_RecordBeforeEnrolment ==
    /\ \A p \in r_server.retry_keys :
          /\ "message" \in DOMAIN get_failure(r_server, p[2])
          /\ p[2] \in get_failure_keys(r_server)
    /\ \A w \in Workers :
          frame[w].retry_key # None
          => /\ "message" \in DOMAIN get_failure(r_server, frame[w].retry_key)
             /\ frame[w].retry_key \in get_failure_keys(r_server)
    /\ \A e \in raised : e.error # "KeyError"

\* a worker's store_failure has done its sadd and not yet its zadd, and
\* another worker's sweep has already popped the key and reads its hash
C20_Witness ==
    \E w, x \in Workers :
        /\ StoreAt(w, "zadd")
        /\ pc[x] = "hgetall"
        /\ frame[x].retry_key = storing[w].key

=============================================================================
